---- MODULE Spec2Model ----
(***************************************************************************)
(* Model of auth_kommune: the session -> identity -> stored user state     *)
(* machine of PostgresAuthenticationBackend (middleware.py), the           *)
(* route-gated AccessLogMiddleware (middleware.py), the User identity      *)
(* record (user.py) and the three OAuth flow handlers (routes.py).         *)
(*                                                                         *)
(* Strings that the code inspects character by character (paths, query     *)
(* strings, e-mail addresses, ids) are sequences of one-character strings. *)
(* A Python Optional is None == << >> or Some(v) == << v >>.               *)
(***************************************************************************)
EXTENDS Integers, Sequences, FiniteSets, TLC

\* ---------------------------------------------------------------- bounds
\* The clock runs over 0 .. MaxTime.
MaxTime == 3
\* At most MaxRequests requests are served in one behaviour.
MaxRequests == 3
\* NTasks request-handler tasks share the connection wrapper.
NTasks == 2
\* At most MaxCalls calls are made on the connection wrapper.
MaxCalls == 4

\* ------------------------------------------------------- Python Optional
None == << >>
Some(v) == << v >>

\* ------------------------------------------------------ character strings
S_root == << "/" >>
S_reports == << "/", "r", "e", "p", "o", "r", "t", "s" >>
S_reports_123 == S_reports \o << "/", "1", "2", "3" >>
S_export == << "/", "e", "x", "p", "o", "r", "t" >>
S_other == << "/", "o", "t", "h", "e", "r" >>
S_login == << "/", "l", "o", "g", "i", "n" >>
S_login_auth == S_login \o << "/", "a", "u", "t", "h" >>
S_logout == << "/", "l", "o", "g", "o", "u", "t" >>
S_x1 == << "x", "=", "1" >>
S_next_other == << "n", "e", "x", "t", "=" >> \o S_other
S_empty == << >>

\* str.startswith
StartsWith(s, p) == Len(p) <= Len(s) /\ SubSeq(s, 1, Len(p)) = p

\* str.split("@")[0]: the part before the first "@", the whole string if
\* there is none.
SplitAt0(s) ==
    LET at == { i \in 1..Len(s) : s[i] = "@" }
    IN  IF at = {} THEN s
        ELSE SubSeq(s, 1, (CHOOSE i \in at : \A j \in at : i <= j) - 1)

\* ------------------------------------------------------------ claim data
\* The value under a claim mapping's "exp" key: an integer timestamp, a
\* value Python cannot order against a float (str, None), or no key at all.
ExpInt(n) == [kind |-> "int", val |-> n]
ExpStr == [kind |-> "str", val |-> 0]
ExpAbsent == [kind |-> "absent", val |-> 0]

Id_u1 == << "u", "1" >>
Id_u2 == << "u", "2" >>
Mail_a_x == << "a", "@", "x" >>
Mail_a_y == << "a", "@", "y" >>
Mail_b_x == << "b", "@", "x" >>

ClaimAnn ==
    [id |-> Id_u1, name |-> "Ann", email |-> Mail_a_x, role |-> << "admin" >>,
     department |-> 1, department_tree |-> << 1 >>, exp |-> ExpInt(2)]
\* the same person after an upstream change of every attribute but the id
ClaimAnnLater ==
    [id |-> Id_u1, name |-> "Ann B", email |-> Mail_a_y, role |-> << "user" >>,
     department |-> 2, department_tree |-> << 1, 2 >>, exp |-> ExpInt(MaxTime)]
ClaimBob ==
    [id |-> Id_u2, name |-> "Bob", email |-> Mail_b_x, role |-> << >>,
     department |-> 1, department_tree |-> << 1 >>, exp |-> ExpInt(1)]
ClaimNoExp == [ClaimBob EXCEPT !.exp = ExpAbsent]
ClaimStrExp == [ClaimBob EXCEPT !.exp = ExpStr]
ClaimDev ==
    [id |-> << "d", "e", "v" >>, name |-> "Dev", email |-> << "d", "@", "x" >>,
     role |-> << "admin" >>, department |-> 1, department_tree |-> << 1 >>,
     exp |-> ExpAbsent]

\* the userinfo payloads a token response can carry
Claims == { ClaimAnn, ClaimAnnLater, ClaimBob, ClaimNoExp, ClaimStrExp }

\* transform_userinfo callables: pure functions from mapping to mapping
ApplyTransform(t, userinfo) ==
    IF t = "add_role"
    THEN [userinfo EXCEPT !.role = Append(userinfo.role, "staff")]
    ELSE userinfo

\* ------------------------------------------------------- route patterns
\* A str pattern or the compiled path_regex of a parameterless Route, which
\* is "^" + path + "$".
PStr(s) == [kind |-> "str", text |-> s]
PRoute(s) == [kind |-> "regex", text |-> s]

\* the arguments AccessLogMiddleware is constructed with
LArgs(r, q, c) == [routes |-> r, query_routes |-> q, status_codes |-> c]
LoggerArgs ==
    { LArgs({}, {}, {}),
      LArgs({ PStr(S_empty) }, {}, { 200 }),
      LArgs({ PStr(S_reports) }, { PStr(S_export) }, { 200 }),
      LArgs({ PStr(S_reports), PRoute(S_export) },
            { PStr(S_reports_123), PStr(S_export) }, {}),
      LArgs({}, { PStr(S_root) }, {}) }

\* the arguments PostgresAuthenticationBackend is constructed with; the key
\* names keep their defaults, key_department and key_department_tree are
\* TRUE when a key name is configured and FALSE when it is None
BArgs(t, d, e, kd, kt) ==
    [transform_userinfo |-> t, default_userinfo |-> d, email_id |-> e,
     key_department |-> kd, key_department_tree |-> kt]
BackendArgs ==
    { BArgs(None, None, FALSE, TRUE, TRUE),
      BArgs(Some("add_role"), None, TRUE, FALSE, TRUE),
      BArgs(None, Some(ClaimDev), FALSE, TRUE, FALSE) }

\* ------------------------------------------------------------- requests
Req(m, p, q, n) == [method |-> m, path |-> p, query |-> q, next |-> n]
Requests ==
    { Req("GET", S_reports_123, S_empty, None),
      Req("GET", S_reports_123, S_x1, None),
      Req("GET", S_export, S_x1, None),
      Req("GET", S_other, S_empty, None),
      Req("GET", S_login, S_empty, None),
      Req("GET", S_login, S_next_other, Some(S_other)),
      Req("GET", S_login_auth, S_empty, None),
      Req("GET", S_logout, S_empty, None) }
NoRequest == Req("", S_empty, S_empty, None)

\* status codes an application endpoint answers with
AppStatus == { 200, 404 }

\* -------------------------------------------------------------- session
\* The session is a dict: a function whose domain is the set of its keys.
EmptySession == [k \in {} |-> None]
Has(d, k) == k \in DOMAIN d
\* dict.get(k, default)
Get(d, k, default) == IF k \in DOMAIN d THEN d[k] ELSE default
\* dict.pop(k, None)
Pop(d, k) == [x \in DOMAIN d \ { k } |-> d[x]]
\* d[k] = v
Put(d, k, v) == [x \in DOMAIN d \cup { k } |-> IF x = k THEN v ELSE d[x]]

\* ------------------------------------------------------------- responses
Redirect(url) == [status_code |-> 307, location |-> url]
S_idp == << "i", "d", "p" >>
AuthorizeRedirect == [status_code |-> 302, location |-> S_idp]
Plain(status) == [status_code |-> status, location |-> S_empty]
NoResponse == [status_code |-> 0, location |-> S_empty]

\* ------------------------------------------------------------ variables
VARIABLES
    \* AccessLogMiddleware construction
    routes, query_routes, status_codes,
    \* PostgresAuthenticationBackend construction
    transform_userinfo, default_userinfo, email_id, key_department,
    key_department_tree,
    \* the world
    now,            \* current UTC time
    session,        \* the browser's session dict
    users,          \* committed rows of table users
    access_logs,    \* committed rows of table access_logs, in insertion order
    \* the request being served
    pc,             \* where the request is in the middleware chain
    request,
    request_user,   \* request.user as set by the authentication middleware
    credentials,    \* request.auth scopes
    time,           \* dispatch's local variable time
    route_match,    \* dispatch's local variable route_match
    response,       \* what call_next returned
    returned,       \* what dispatch returned
    \* observations of the run, read by the properties only
    nreq,           \* requests started so far
    auth,           \* what authenticate did in this request
    disp,           \* what dispatch did in this request
    upsert,         \* the update_user calls of this request
    \* PostgreConnectionWrapper, shared by the tasks
    autocommit,     \* connargs["autocommit"]
    connection,     \* self.connection: None or Some(handle)
    opened,         \* physical connections opened so far; handles are 1..opened
    closed,         \* handles that have been closed
    pending,        \* statements executed and not committed, per handle
    durable,        \* statements made durable, with the call that committed
    task,           \* where each task is inside a wrapper call
    ncalls,         \* calls started so far; a call's id is its number
    last            \* the call started last

config == << routes, query_routes, status_codes, transform_userinfo,
             default_userinfo, email_id, key_department,
             key_department_tree >>
world == << now, session, users, access_logs >>
req == << pc, request, request_user, credentials, time, route_match,
          response, returned >>
obs == << nreq, auth, disp, upsert >>
gw == << autocommit, connection, opened, closed, pending, durable, task,
         ncalls, last >>
vars == << config, world, req, obs, gw >>

\* ---------------------------------------------------------- user.py
Unauthenticated ==
    [cls |-> "UnauthenticatedUser", is_authenticated |-> FALSE,
     id |-> S_empty, name |-> "", email |-> S_empty, roles |-> << >>,
     department |-> None, department_tree |-> None]

\* User.__init__
User(userinfo) ==
    [cls |-> "User", is_authenticated |-> TRUE,
     id |-> IF email_id THEN SplitAt0(userinfo.email) ELSE userinfo.id,
     name |-> userinfo.name,
     email |-> userinfo.email,
     roles |-> userinfo.role,
     department |-> IF key_department THEN Some(userinfo.department) ELSE None,
     department_tree |->
        IF key_department_tree THEN Some(userinfo.department_tree)
        ELSE None]

\* AuthCredentials(["authenticated", *user.roles])
Scopes(user) == << "authenticated" >> \o user.roles

\* ------------------------------------------------------ table users
\* the values update_user binds to the statement
Row(user) ==
    [id |-> user.id, name |-> user.name, email |-> user.email,
     department |-> user.department, department_tree |-> user.department_tree,
     roles |-> user.roles]

\* Upsert with "on conflict (id) do nothing"
Upsert_do_nothing(table, row) ==
    IF \E r \in table : r.id = row.id THEN table ELSE table \cup { row }

\* Upsert without a primary key on id to conflict with
Upsert_insert(table, row) == table \cup { row }

\* insert ... on conflict (id) do update set name, email, department,
\* department_tree, roles = excluded.*
Upsert(table, row) ==
    IF \E r \in table : r.id = row.id
    THEN { IF r.id = row.id
           THEN [r EXCEPT !.name = row.name, !.email = row.email,
                          !.department = row.department,
                          !.department_tree = row.department_tree,
                          !.roles = row.roles]
           ELSE r : r \in table }
    ELSE table \cup { row }

\* ------------------------------------------- AccessLogMiddleware helpers
\* __init__: the set comprehension keeps the truthy patterns only
RouteSet(arg) == { r \in arg : r.kind = "regex" \/ r.text # S_empty }

\* path.startswith(r) if isinstance(r, str) else r.match(path)
Matches(r, path) ==
    IF r.kind = "str" THEN StartsWith(path, r.text) ELSE path = r.text

\* match_route
MatchRoute(rq) ==
    << \E r \in routes : Matches(r, rq.path),
       \E r \in query_routes : Matches(r, rq.path) >>

\* LoggedPath ignoring the query_params flag
LoggedPath_always(rq, query_params) ==
    rq.path \o (IF rq.query # S_empty THEN << "?" >> \o rq.query ELSE S_empty)

\* the path value log_access binds to the statement
LoggedPath(rq, query_params) ==
    rq.path \o (IF rq.query # S_empty /\ query_params
                THEN << "?" >> \o rq.query ELSE S_empty)

\* the row log_access inserts
LogRow(t, user, rq, resp, query_params) ==
    [time |-> t, user_id |-> user.id, request_method |-> rq.method,
     path |-> LoggedPath(rq, query_params), response |-> resp.status_code]

\* dispatch: not self.routes and not self.query_routes
NoRoutes == routes = {} /\ query_routes = {}

\* ShouldLog with "or" for "and"
ShouldLog_or(user, rq) == user.is_authenticated \/ MatchRoute(rq)[1]

\* dispatch: request.user.is_authenticated and
\* (route_match := self.match_route(request))[0]
ShouldLog(user, rq) == user.is_authenticated /\ MatchRoute(rq)[1]

\* dispatch: not self.status_codes or response.status_code in
\* self.status_codes
StatusPasses(resp) == status_codes = {} \/ resp.status_code \in status_codes

\* -------------------------------------------------------- observations
NoAuth ==
    [result |-> "none",         \* anonymous, authenticated or error
     source |-> "none",         \* session or default
     before |-> EmptySession,   \* the session when authenticate was called
     at |-> 0,                  \* the time when authenticate was called
     after_logout |-> FALSE]    \* the request before was served by
                                \* handler_logout
NoDisp ==
    [mode |-> "none",       \* pass, forward or log: the branch dispatch took
     calls |-> 0,           \* calls of call_next
     user_read |-> FALSE,   \* request.user was read
     gate_calls |-> 0,      \* calls of match_route
     called |-> 0,          \* when call_next was called
     written |-> 0,         \* when log_access ran
     logs |-> 0,            \* rows of access_logs when the request came in
     users |-> {},          \* table users when dispatch was entered
     session |-> EmptySession,  \* the session when dispatch was entered
     token |-> None]        \* token.get("userinfo") as handler_auth got it
NoUpsert ==
    [n |-> 0,                   \* number of calls
     user |-> Unauthenticated,  \* the argument of the last call
     before |-> {}]             \* the rows with that id before the last call

\* ------------------------------------------- PostgreConnectionWrapper
Tasks == 1..NTasks
\* a task between two calls
IdleTask ==
    [pc |-> "idle",     \* idle, connecting (inside connect) or commit
                        \* (inside a write call, statement executed)
     call |-> 0,        \* id of the call the task is in or made last
     saw |-> None,      \* self.connection as connect found it
     got |-> None,      \* what connect returned
     err |-> FALSE]     \* the last call raised

\* __init__: self.connection = None
WrapperInit ==
    /\ connection = None
    /\ opened = 0
    /\ closed = {}
    /\ pending = {}
    /\ durable = {}
    /\ task = [t \in Tasks |-> IdleTask]
    /\ ncalls = 0
    /\ last = [t |-> 0, op |-> "none"]

\* ----------------------------------------------------------------- Init
Init ==
    /\ autocommit = FALSE
    /\ WrapperInit
    /\ \E a \in LoggerArgs :
          /\ routes = RouteSet(a.routes)
          /\ query_routes = RouteSet(a.query_routes)
          /\ status_codes = a.status_codes
    /\ \E a \in BackendArgs :
          /\ transform_userinfo = a.transform_userinfo
          /\ default_userinfo = a.default_userinfo
          /\ email_id = a.email_id
          /\ key_department = a.key_department
          /\ key_department_tree = a.key_department_tree
    /\ now = 0
    /\ session = EmptySession
    /\ users = {}
    /\ access_logs = << >>
    /\ pc = "idle"
    /\ request = NoRequest
    /\ request_user = Unauthenticated
    /\ credentials = << >>
    /\ time = 0
    /\ route_match = << FALSE, FALSE >>
    /\ response = NoResponse
    /\ returned = NoResponse
    /\ nreq = 0
    /\ auth = NoAuth
    /\ disp = NoDisp
    /\ upsert = NoUpsert

\* ------------------------------------------------------------ the world
\* time passes
Tick ==
    /\ now < MaxTime
    /\ now' = now + 1
    /\ UNCHANGED << config, gw, session, users, access_logs, req, obs >>

\* a request enters the middleware chain
NewRequest ==
    /\ pc = "idle"
    /\ nreq < MaxRequests
    /\ \E r \in Requests : request' = r
    /\ pc' = "authenticate"
    /\ request_user' = Unauthenticated
    /\ credentials' = << >>
    /\ time' = 0
    /\ route_match' = << FALSE, FALSE >>
    /\ response' = NoResponse
    /\ returned' = NoResponse
    /\ nreq' = nreq + 1
    /\ auth' = [NoAuth EXCEPT !.after_logout =
                    (disp.mode # "none" /\ request.path = S_logout)]
    /\ disp' = [NoDisp EXCEPT !.logs = Len(access_logs)]
    /\ upsert' = NoUpsert
    /\ UNCHANGED << config, gw, world >>

\* ---------------------------------------- PostgresAuthenticationBackend
\* UpdateUser that never reaches the store
UpdateUser_skip(user) == UNCHANGED << users, upsert >>

\* update_user: one upsert statement, then commit
UpdateUser(user) ==
    /\ users' = Upsert(users, Row(user))
    /\ upsert' = [n |-> upsert.n + 1, user |-> user,
                  before |-> { r \in users : r.id = user.id }]

\* datetime.now(timezone.utc).timestamp() >= userinfo["exp"]: KeyError when
\* the key is missing, TypeError when the value cannot be ordered against a
\* float
\* ExpRaises reading userinfo.get("exp", 0)
ExpRaises_default(userinfo) == userinfo.exp.kind = "str"
ExpRaises(userinfo) == userinfo.exp.kind # "int"
\* Expired comparing with > instead of >=
Expired_gt(userinfo) == now > userinfo.exp.val
Expired(userinfo) == now >= userinfo.exp.val

\* UseDefault without the default_userinfo branch
UseDefault_never(missing) == FALSE
\* authenticate: not (userinfo := conn.session.get("user")) and
\* self.default_userinfo
UseDefault(missing) == missing /\ default_userinfo # None

\* SessionAfterTransform writing the transformed mapping back
SessionAfterTransform_stored(sess, transformed) ==
    Put(sess, "user", transformed)
\* authenticate: userinfo = self.transform_userinfo(userinfo) rebinds the
\* local name, the session keeps the mapping it had
SessionAfterTransform(sess, transformed) == sess

\* authenticate, run by the authentication middleware on every request
Authenticate ==
    /\ pc = "authenticate"
    /\ LET \* not (userinfo := conn.session.get("user")): a stored claim
           \* mapping is never empty, so it is falsy only when missing
           missing == ~Has(session, "user")
           userinfo == session["user"]
           seen == [auth EXCEPT !.before = session, !.at = now]
       IN  IF UseDefault(missing)
           THEN LET user == User(default_userinfo[1])
                IN  /\ request_user' = user
                    /\ credentials' = Scopes(user)
                    /\ auth' = [seen EXCEPT !.result = "authenticated",
                                            !.source = "default"]
                    /\ pc' = "dispatch"
                    /\ UNCHANGED << session, users, upsert >>
           ELSE IF missing
           THEN /\ request_user' = Unauthenticated
                /\ credentials' = << >>
                /\ auth' = [seen EXCEPT !.result = "anonymous"]
                /\ pc' = "dispatch"
                /\ UNCHANGED << session, users, upsert >>
           ELSE IF ExpRaises(userinfo)
           THEN \* the exception ends the request
                /\ auth' = [seen EXCEPT !.result = "error",
                                        !.source = "session"]
                /\ pc' = "idle"
                /\ UNCHANGED << session, users, upsert, request_user,
                                credentials >>
           ELSE IF Expired(userinfo)
           THEN /\ session' = Pop(session, "user")
                /\ request_user' = Unauthenticated
                /\ credentials' = << >>
                /\ auth' = [seen EXCEPT !.result = "anonymous",
                                        !.source = "session"]
                /\ pc' = "dispatch"
                /\ UNCHANGED << users, upsert >>
           ELSE LET transformed ==
                        IF transform_userinfo # None
                        THEN ApplyTransform(transform_userinfo[1], userinfo)
                        ELSE userinfo
                    user == User(transformed)
                IN  /\ UpdateUser(user)
                    /\ request_user' = user
                    /\ credentials' = Scopes(user)
                    /\ auth' = [seen EXCEPT !.result = "authenticated",
                                            !.source = "session"]
                    /\ pc' = "dispatch"
                    /\ session' = SessionAfterTransform(session, transformed)
    /\ UNCHANGED << config, gw, now, access_logs, request, time, route_match,
                    response, returned, nreq, disp >>

\* ------------------------------------------------- AccessLogMiddleware
\* LogAccess stamping the row with the time of the write
LogAccess_now(t, user, rq, resp, query_params) ==
    access_logs' =
        Append(access_logs, LogRow(now, user, rq, resp, query_params))

\* log_access: one insert statement, then commit
LogAccess(t, user, rq, resp, query_params) ==
    access_logs' = Append(access_logs, LogRow(t, user, rq, resp, query_params))

\* DispatchPassThrough without the early return: the request takes the
\* general path, which reads request.user and calls match_route
DispatchPassThrough_general ==
    /\ pc = "dispatch"
    /\ NoRoutes
    /\ disp' = [disp EXCEPT !.mode = "forward", !.users = users,
                   !.session = session,
                   !.user_read = TRUE,
                   !.gate_calls = IF request_user.is_authenticated
                                  THEN 1 ELSE 0]
    /\ pc' = "call_next"
    /\ UNCHANGED << config, gw, world, request, request_user, credentials, time,
                    route_match, response, returned, nreq, auth, upsert >>

\* dispatch, first branch: no route configured
DispatchPassThrough ==
    /\ pc = "dispatch"
    /\ NoRoutes
    /\ disp' = [disp EXCEPT !.mode = "pass", !.users = users,
                            !.session = session]
    /\ pc' = "call_next"
    /\ UNCHANGED << config, gw, world, request, request_user, credentials, time,
                    route_match, response, returned, nreq, auth, upsert >>

\* dispatch, else branch: request.user.is_authenticated and
\* (route_match := self.match_route(request))[0] is false; match_route is
\* called only when the left operand is true
DispatchForward ==
    /\ pc = "dispatch"
    /\ ~NoRoutes
    /\ ~ShouldLog(request_user, request)
    /\ route_match' = IF request_user.is_authenticated
                      THEN MatchRoute(request) ELSE route_match
    /\ disp' = [disp EXCEPT !.mode = "forward", !.users = users,
                   !.session = session,
                   !.user_read = TRUE,
                   !.gate_calls = IF request_user.is_authenticated
                                  THEN 1 ELSE 0]
    /\ pc' = "call_next"
    /\ UNCHANGED << config, gw, world, request, request_user, credentials, time,
                    response, returned, nreq, auth, upsert >>

\* dispatch, logging branch up to the await of call_next: time is taken
DispatchCapture ==
    /\ pc = "dispatch"
    /\ ~NoRoutes
    /\ ShouldLog(request_user, request)
    /\ route_match' = MatchRoute(request)
    /\ time' = now
    /\ disp' = [disp EXCEPT !.mode = "log", !.users = users,
                            !.session = session,
                            !.user_read = TRUE,
                            !.gate_calls = 1]
    /\ pc' = "call_next"
    /\ UNCHANGED << config, gw, world, request, request_user, credentials,
                    response, returned, nreq, auth, upsert >>

\* dispatch after call_next returned: log if the status passes, then return
\* the response
DispatchReturn ==
    /\ pc = "return"
    /\ IF disp.mode = "log" /\ StatusPasses(response)
       THEN /\ LogAccess(time, request_user, request, response, route_match[2])
            /\ disp' = [disp EXCEPT !.written = now]
       ELSE UNCHANGED << access_logs, disp >>
    /\ returned' = response
    /\ pc' = "idle"
    /\ UNCHANGED << config, gw, now, session, users, request, request_user,
                    credentials, time, route_match, response, nreq, auth,
                    upsert >>

\* ------------------------------------------------------------ routes.py
\* what call_next does around the endpoint it runs; token is the userinfo
\* of the token response when the endpoint asked the OAuth client for one
CalledWith(resp, token) ==
    /\ pc = "call_next"
    /\ response' = resp
    /\ disp' = [disp EXCEPT !.calls = @ + 1, !.called = now,
                            !.token = token]
    /\ pc' = "return"
    /\ UNCHANGED << config, gw, now, users, access_logs, request, request_user,
                    credentials, time, route_match, returned, nreq, auth,
                    upsert >>
Called(resp) == CalledWith(resp, None)

\* handler_login: request.query_params.get("next",
\* request.session.get("next", "/"))
\* LoginTarget without the next query parameter
LoginTarget_stored(rq, sess) == Get(sess, "next", S_root)
LoginTarget(rq, sess) ==
    IF rq.next # None THEN rq.next[1] ELSE Get(sess, "next", S_root)

\* handler_login, mounted on /login
HandlerLogin ==
    /\ request.path = S_login
    /\ IF request_user.cls # "DefaultUser" /\ request_user.is_authenticated
       THEN /\ Called(Redirect(LoginTarget(request, session)))
            /\ UNCHANGED session
       ELSE /\ session' = IF request.next # None /\ request.next[1] # S_empty
                          THEN Put(session, "next", request.next[1])
                          ELSE session
            /\ Called(AuthorizeRedirect)

\* HandlerAuth leaving the stashed next in the session
HandlerAuth_keep_next ==
    /\ request.path = S_login_auth
    /\ \E userinfo \in { None } \cup { Some(c) : c \in Claims } :
          IF userinfo # None
          THEN /\ session' = Put(session, "user", userinfo[1])
               /\ CalledWith(Redirect(Get(session, "next", S_root)), userinfo)
          ELSE /\ CalledWith(Redirect(S_login), userinfo)
               /\ UNCHANGED session

\* handler_auth, mounted on /login/auth; token.get("userinfo") is the OAuth
\* client's answer
HandlerAuth ==
    /\ request.path = S_login_auth
    /\ \E userinfo \in { None } \cup { Some(c) : c \in Claims } :
          IF userinfo # None
          THEN /\ session' = Pop(Put(session, "user", userinfo[1]), "next")
               /\ CalledWith(Redirect(Get(session, "next", S_root)), userinfo)
          ELSE /\ CalledWith(Redirect(S_login), userinfo)
               /\ UNCHANGED session

\* HandlerLogout popping the wrong key
HandlerLogout_pop_next ==
    /\ request.path = S_logout
    /\ session' = Pop(session, "next")
    /\ Called(Redirect(S_root))

\* handler_logout, mounted on /logout
HandlerLogout ==
    /\ request.path = S_logout
    /\ session' = Pop(session, "user")
    /\ Called(Redirect(S_root))

\* any other endpoint of the application
AppEndpoint ==
    /\ request.path \notin { S_login, S_login_auth, S_logout }
    /\ \E status \in AppStatus : Called(Plain(status))
    /\ UNCHANGED session

\* ------------------------------------------------------- specification
Next ==
    \/ Tick
    \/ NewRequest
    \/ Authenticate
    \/ DispatchPassThrough
    \/ DispatchForward
    \/ DispatchCapture
    \/ HandlerLogin
    \/ HandlerAuth
    \/ HandlerLogout
    \/ AppEndpoint
    \/ DispatchReturn

Spec == Init /\ [][Next]_vars

TypeOK ==
    /\ now \in 0..MaxTime
    /\ pc \in { "idle", "authenticate", "dispatch", "call_next", "return" }
    /\ DOMAIN session \subseteq { "user", "next" }
    /\ nreq \in 0..MaxRequests

\* ----------------------------- concurrent use of PostgreConnectionWrapper
\* Tasks call connect, close, update_user and log_access on one wrapper and
\* are switched at the awaits of these methods.
seq == << config, world, req, obs >>

\* a call starts: it gets the next id
Start(t, op) ==
    /\ task[t].pc = "idle"
    /\ ncalls < MaxCalls
    /\ ncalls' = ncalls + 1
    /\ last' = [t |-> t, op |-> op]

\* Connect without the "is None" test
Connect_always(t) ==
    /\ Start(t, "connect")
    /\ task' = [task EXCEPT ![t] = [IdleTask EXCEPT !.pc = "connecting",
                                       !.call = ncalls + 1,
                                       !.saw = connection]]
    /\ UNCHANGED << seq, autocommit, connection, opened, closed, pending,
                    durable >>

\* connect up to its await: with a handle in self.connection it returns it,
\* without one it starts AsyncConnection.connect
Connect(t) ==
    /\ Start(t, "connect")
    /\ task' = [task EXCEPT ![t] =
                  IF connection = None
                  THEN [IdleTask EXCEPT !.pc = "connecting",
                                        !.call = ncalls + 1,
                                        !.saw = connection]
                  ELSE [IdleTask EXCEPT !.call = ncalls + 1,
                                        !.saw = connection,
                                        !.got = connection]]
    /\ UNCHANGED << seq, autocommit, connection, opened, closed, pending,
                    durable >>

\* connect after its await: the new handle is stored and returned
Connected(t) ==
    /\ task[t].pc = "connecting"
    /\ opened' = opened + 1
    /\ connection' = Some(opened + 1)
    /\ task' = [task EXCEPT ![t].pc = "idle", ![t].got = Some(opened + 1)]
    /\ UNCHANGED << seq, autocommit, closed, pending, durable, ncalls, last >>

\* close: closes the handle in self.connection, if there is one, and keeps
\* it there; closing a closed psycopg connection does nothing; statements
\* not committed are lost with the connection
Close(t) ==
    /\ Start(t, "close")
    /\ task' = [task EXCEPT ![t] = [IdleTask EXCEPT !.call = ncalls + 1]]
    /\ IF connection # None
       THEN /\ closed' = closed \cup { connection[1] }
            /\ pending' = { s \in pending : s.conn # connection[1] }
       ELSE UNCHANGED << closed, pending >>
    /\ UNCHANGED << seq, autocommit, connection, opened, durable >>

\* the handle in self.connection can run a statement
Usable == connection # None /\ connection[1] \notin closed

\* update_user or log_access up to the await of cursor.execute: the
\* statement runs on the handle in self.connection, in the transaction open
\* there, or on its own with autocommit; without a usable handle the call
\* raises
Execute(t) ==
    /\ \E op \in { "update_user", "log_access" } : Start(t, op)
    /\ IF Usable
       THEN LET stmt == [call |-> ncalls + 1, conn |-> connection[1]]
            IN  /\ task' = [task EXCEPT ![t] =
                              [IdleTask EXCEPT !.pc = "commit",
                                               !.call = ncalls + 1]]
                /\ IF autocommit
                   THEN /\ durable' = durable \cup
                                { [call |-> stmt.call, by |-> stmt.call] }
                        /\ UNCHANGED pending
                   ELSE /\ pending' = pending \cup { stmt }
                        /\ UNCHANGED durable
       ELSE /\ task' = [task EXCEPT ![t] =
                          [IdleTask EXCEPT !.call = ncalls + 1, !.err = TRUE]]
            /\ UNCHANGED << pending, durable >>
    /\ UNCHANGED << seq, autocommit, connection, opened, closed >>

\* update_user or log_access from the await of connection_wrapper.commit:
\* the commit ends the transaction open on the handle in self.connection,
\* whichever calls ran statements in it
Commit(t) ==
    /\ task[t].pc = "commit"
    /\ IF Usable
       THEN /\ durable' = durable \cup
                   { [call |-> s.call, by |-> task[t].call] :
                       s \in { x \in pending : x.conn = connection[1] } }
            /\ pending' = { s \in pending : s.conn # connection[1] }
            /\ task' = [task EXCEPT ![t].pc = "idle"]
       ELSE /\ task' = [task EXCEPT ![t].pc = "idle", ![t].err = TRUE]
            /\ UNCHANGED << pending, durable >>
    /\ UNCHANGED << seq, autocommit, connection, opened, closed, ncalls,
                    last >>

InitConc ==
    /\ routes = {} /\ query_routes = {} /\ status_codes = {}
    /\ transform_userinfo = None /\ default_userinfo = None
    /\ email_id = FALSE /\ key_department = TRUE /\ key_department_tree = TRUE
    /\ now = 0
    /\ session = EmptySession
    /\ users = {}
    /\ access_logs = << >>
    /\ pc = "idle"
    /\ request = NoRequest
    /\ request_user = Unauthenticated
    /\ credentials = << >>
    /\ time = 0
    /\ route_match = << FALSE, FALSE >>
    /\ response = NoResponse
    /\ returned = NoResponse
    /\ nreq = 0
    /\ auth = NoAuth
    /\ disp = NoDisp
    /\ upsert = NoUpsert
    /\ autocommit \in BOOLEAN
    /\ WrapperInit

NextConc ==
    \/ \E t \in Tasks : Connect(t)
    \/ \E t \in Tasks : Connected(t)
    \/ \E t \in Tasks : Close(t)
    \/ \E t \in Tasks : Execute(t)
    \/ \E t \in Tasks : Commit(t)

SpecConc == InitConc /\ [][NextConc]_vars

\* ========================================================== properties
\* authenticate has returned or raised and nothing has run since
AuthJustRan ==
    \/ auth.result \in { "anonymous", "authenticated" } /\ pc = "dispatch"
    \/ auth.result = "error" /\ pc = "idle"
\* the claim mapping authenticate found in the session
SessionClaim == auth.before["user"]
\* dispatch has returned
Completed == pc = "idle" /\ disp.mode # "none"
\* rows of access_logs written since the request came in
NewLogs == Len(access_logs) - disp.logs
LastLog == access_logs[Len(access_logs)]

\* C1: authenticate on a session with a user entry: exp <= now gives the
\* anonymous identity and removes the entry; exp > now gives an
\* authenticated identity and leaves the session as it was.
C1_ExpiryDecides ==
    (AuthJustRan /\ Has(auth.before, "user") /\ SessionClaim.exp.kind = "int")
    => /\ SessionClaim.exp.val <= auth.at
          => /\ auth.result = "anonymous"
             /\ request_user = Unauthenticated
             /\ credentials = << >>
             /\ ~Has(session, "user")
             /\ session = Pop(auth.before, "user")
       /\ SessionClaim.exp.val > auth.at
          => /\ auth.result = "authenticated"
             /\ request_user.is_authenticated
             /\ session = auth.before

\* a session entry expiring exactly now was removed
C1_Witness ==
    /\ AuthJustRan /\ Has(auth.before, "user")
    /\ SessionClaim.exp.kind = "int" /\ SessionClaim.exp.val = auth.at
    /\ auth.result = "anonymous" /\ ~Has(session, "user")

\* C2: when authenticate returns an authenticated identity made from the
\* session's user entry, update_user has run once with that identity and the
\* users table holds, for its id, exactly the row of the identity parsed
\* from the transformed claim.
C2_UpsertedBeforeReturn ==
    (AuthJustRan /\ auth.result = "authenticated" /\ auth.source = "session")
    => LET claim == SessionClaim
           roles == IF transform_userinfo = None THEN claim.role
                    ELSE Append(claim.role, "staff")
           expected ==
               [id |-> IF email_id THEN SplitAt0(claim.email) ELSE claim.id,
                name |-> claim.name, email |-> claim.email,
                department |-> IF key_department
                               THEN Some(claim.department) ELSE None,
                department_tree |-> IF key_department_tree
                                    THEN Some(claim.department_tree) ELSE None,
                roles |-> roles]
       IN  /\ upsert.n = 1
           /\ request_user.id = expected.id
           /\ request_user.roles = roles
           /\ { r \in users : r.id = request_user.id } = { expected }

\* the returned identity replaced a different stored row of the same id
C2_Witness ==
    /\ AuthJustRan /\ auth.result = "authenticated" /\ auth.source = "session"
    /\ upsert.before # {} /\ upsert.before # { Row(request_user) }
    /\ Row(request_user) \in users

\* the path matches a pattern of the plain set / of the query-inclusive set
InPlainSet(path) == \E r \in routes : Matches(r, path)
InQuerySet(path) == \E r \in query_routes : Matches(r, path)

\* C3: an authenticated request is in scope for logging if and only if its
\* path matches a pattern of the plain set or of the query-inclusive set
\* (plain {"/reports"}, query-inclusive {"/export"}: /reports/123 and
\* /export?x=1 in scope, /other out of scope).
C3_UnionInScope ==
    (disp.mode # "none" /\ request_user.is_authenticated)
    => (disp.mode = "log"
        <=> (InPlainSet(request.path) \/ InQuerySet(request.path)))

\* C4: the logged path carries the query string only if the request path
\* matches a pattern of the query-inclusive set; a request matching plain
\* patterns only is logged with its bare path.
C4_QueryOnlyForQueryRoutes ==
    (NewLogs > 0)
    => /\ LastLog.path \in { request.path,
                             request.path \o << "?" >> \o request.query }
       /\ LastLog.path # request.path => InQuerySet(request.path)
       /\ ~InQuerySet(request.path) => LastLog.path = request.path

\* a request with a query string was logged with it
C4_Witness ==
    /\ NewLogs > 0 /\ request.query # S_empty
    /\ InQuerySet(request.path)
    /\ LastLog.path = request.path \o << "?" >> \o request.query

\* C5: with both route sets empty dispatch calls the downstream handler
\* exactly once and returns its response, without reading request.user,
\* without calling match_route and without writing to the store.
C5_PassThrough ==
    (NoRoutes /\ disp.mode # "none")
    => /\ ~disp.user_read
       /\ disp.gate_calls = 0
       /\ NewLogs = 0
       /\ users = disp.users
       /\ pc = "call_next" => disp.calls = 0
       /\ pc \in { "return", "idle" } => disp.calls = 1
       /\ Completed => returned = response

\* an authenticated request went through a logger without routes
C5_Witness ==
    /\ NoRoutes /\ Completed /\ request_user.is_authenticated
    /\ disp.calls = 1 /\ returned = response /\ response.status_code = 200

\* C6: an authenticated request that is in scope, its path matching a
\* pattern of either set, adds exactly one access_logs row if the status
\* allow-list is empty or holds the response status, and no row otherwise.
C6_StatusFilter ==
    (Completed /\ request_user.is_authenticated
     /\ (InPlainSet(request.path) \/ InQuerySet(request.path)))
    => NewLogs = IF status_codes = {} \/ response.status_code \in status_codes
                 THEN 1 ELSE 0

C8_NoLogWhenNotInScope ==
    (nreq > 0 /\ (~request_user.is_authenticated \/ ~InPlainSet(request.path)))
    => /\ NewLogs = 0
       /\ Completed => disp.calls = 1 /\ returned = response

\* an unauthenticated request on a logged path came back without a row
C8_Witness ==
    /\ Completed /\ ~request_user.is_authenticated
    /\ InPlainSet(request.path) /\ StatusPasses(response)
    /\ NewLogs = 0 /\ disp.calls = 1

\* C9: a session user entry without exp, or with an exp that is not a
\* number, makes authenticate raise: no identity is returned, update_user is
\* not called and the session keeps its user entry.
C9_BadExpRaises ==
    (auth.result # "none" /\ Has(auth.before, "user")
     /\ SessionClaim.exp.kind # "int")
    => /\ auth.result = "error"
       /\ pc = "idle"
       /\ request_user = Unauthenticated /\ credentials = << >>
       /\ disp.mode = "none" /\ disp.calls = 0
       /\ upsert.n = 0
       /\ session = auth.before

\* authenticate raised on a claim mapping without exp
C9_Witness ==
    /\ auth.result = "error" /\ Has(session, "user")
    /\ session["user"].exp.kind = "absent"

\* C10: the users table never holds two rows with one id, and after
\* update_user the single row of the identity's id carries the call's
\* name, email, roles, department and department_tree.
C10_UpsertOneRowPerId ==
    /\ \A r1, r2 \in users : r1.id = r2.id => r1 = r2
    /\ (upsert.n > 0)
       => /\ \E r \in users : r.id = upsert.user.id
          /\ \A r \in users :
                r.id = upsert.user.id
                => /\ r.name = upsert.user.name
                   /\ r.email = upsert.user.email
                   /\ r.roles = upsert.user.roles
                   /\ r.department = upsert.user.department
                   /\ r.department_tree = upsert.user.department_tree

\* update_user overwrote a row whose name, email and roles all differed
C10_Witness ==
    /\ upsert.n > 0
    /\ \E old \in upsert.before :
          /\ old.name # upsert.user.name
          /\ old.email # upsert.user.email
          /\ old.roles # upsert.user.roles
    /\ Cardinality({ r \in users : r.id = upsert.user.id }) = 1

\* the identity is one the backend made from the session's user entry
FromSession == auth.result = "authenticated" /\ auth.source = "session"
\* the identity is the one the backend made from default_userinfo
FromDefault == auth.result = "authenticated" /\ auth.source = "default"
\* handler_login has served the request
LoginServed == Completed /\ request.path = S_login

\* C13: for an authenticated identity that is not the default one, the login
\* handler answers with a redirect to the next query parameter if there is
\* one, else to the session's stored next, else to "/"; it does not call
\* the OAuth client and leaves the session as it was.
C13_LoginRedirectsAuthenticated ==
    (LoginServed /\ FromSession)
    => /\ response.status_code = 307
       /\ response.location =
             IF request.next # None THEN request.next[1]
             ELSE IF Has(disp.session, "next") THEN disp.session["next"]
             ELSE S_root
       /\ response # AuthorizeRedirect
       /\ session = disp.session
       /\ disp.token = None

\* a login of a session identity, without next anywhere, went to "/"
C13_Witness ==
    /\ LoginServed /\ FromSession
    /\ request.next = None /\ ~Has(session, "next")
    /\ response = Redirect(S_root)

\* C14: for the anonymous identity and for the default identity the login
\* handler does not redirect to the next target: it stores a requested next
\* in the session and answers with the OAuth client's authorization
\* redirect.
C14_LoginDelegates ==
    (LoginServed /\ (auth.result = "anonymous" \/ FromDefault))
    => /\ response = AuthorizeRedirect
       /\ session = IF request.next # None
                    THEN Put(disp.session, "next", request.next[1])
                    ELSE disp.session

C16_Logout ==
    /\ (Completed /\ request.path = S_logout)
       => /\ ~Has(session, "user")
          /\ response = Redirect(S_root)
          /\ disp.calls = 1
    /\ (auth.after_logout /\ AuthJustRan /\ default_userinfo = None)
       => /\ auth.result = "anonymous"
          /\ request_user = Unauthenticated
          /\ credentials = << >>
          /\ upsert.n = 0

\* the request after a logout was authenticated as anonymous although the
\* store knows a user
C16_Witness ==
    /\ auth.after_logout /\ AuthJustRan /\ default_userinfo = None
    /\ auth.result = "anonymous" /\ users # {}

\* C17: without a user entry in the session authenticate returns the
\* anonymous identity with no scopes when no default identity is configured,
\* and otherwise an authenticated identity made of the default claim
\* mapping; the session stays as it was.
C17_NoUserEntry ==
    (AuthJustRan /\ ~Has(auth.before, "user"))
    => /\ session = auth.before
       /\ default_userinfo = None
          => /\ auth.result = "anonymous"
             /\ request_user = Unauthenticated
             /\ credentials = << >>
       /\ default_userinfo # None
          => /\ auth.result = "authenticated"
             /\ request_user.is_authenticated
             /\ request_user.name = default_userinfo[1].name
             /\ request_user.email = default_userinfo[1].email
             /\ request_user.roles = default_userinfo[1].role
             /\ request_user.id =
                   IF email_id THEN SplitAt0(default_userinfo[1].email)
                   ELSE default_userinfo[1].id
             /\ credentials = << "authenticated" >> \o default_userinfo[1].role

\* the default identity was returned for a session without user entry
C17_Witness ==
    /\ AuthJustRan /\ ~Has(auth.before, "user") /\ default_userinfo # None
    /\ request_user.is_authenticated /\ request_user.name = "Dev"

\* a users row exists for the user_id of the row just logged
LoggedUserStored == \E r \in users : r.id = LastLog.user_id

\* C19 as stated: every access_logs row written carries the user_id of a
\* stored users row, whatever authenticated identity it was written for,
\* the default identity included.
C19_LoggedUserStored_Any == (NewLogs > 0) => LoggedUserStored

\* C19, amended: every access_logs row written for an identity made from
\* the session's user entry carries the user_id of a users row that
\* update_user stored earlier in the same request.
C19_LoggedUserStored ==
    (NewLogs > 0 /\ FromSession)
    => /\ LoggedUserStored
       /\ upsert.n = 1
       /\ upsert.user.id = LastLog.user_id
       /\ LastLog.user_id = request_user.id

\* a row was logged for a session identity
C19_Witness ==
    /\ NewLogs > 0 /\ FromSession /\ LoggedUserStored
    /\ LastLog.user_id = request_user.id

\* the session's user entry is set, or holds another mapping than before
UserEntryWritten ==
    /\ Has(session', "user")
    /\ Has(session, "user") => session'["user"] # session["user"]

AnonymousLoginDelegates ==
    (LoginServed /\ auth.result = "anonymous")
    => response = AuthorizeRedirect

\* C11: under any interleaving of the tasks, a statement is made durable by
\* the commit of the call that issued it and by no other call's commit.
C11_OwnCommitOnly == \A d \in durable : d.by = d.call

\* C12: a connect call that finds a handle opens nothing and returns that
\* handle; close without a handle changes nothing and raises nothing, and
\* close of a handle that is closed already changes nothing either.
C12_ConnectCloseIdempotent ==
    [][ (ncalls' # ncalls)
        => /\ (last'.op = "connect" /\ connection # None)
              => /\ connection' = connection
                 /\ opened' = opened
                 /\ task'[last'.t].got = connection
                 /\ task'[last'.t].pc = "idle"
           /\ (last'.op = "close")
              => /\ ~task'[last'.t].err
                 /\ connection' = connection /\ opened' = opened
                 /\ connection = None
                    => UNCHANGED << closed, pending, durable >>
                 /\ (connection # None /\ connection[1] \in closed)
                    => UNCHANGED << closed, pending, durable >>
      ]_vars

\* a connect call found the handle another call had opened
C12_Witness ==
    /\ last.op = "connect" /\ opened = 1
    /\ task[last.t].pc = "idle"
    /\ task[last.t].saw = Some(1) /\ task[last.t].got = Some(1)

\* C18: whatever the interleaving of connect calls, at most one physical
\* connection is opened and all callers get the same handle.
C18_SingleConnection ==
    /\ opened <= 1
    /\ \A t1, t2 \in Tasks :
          (task[t1].got # None /\ task[t2].got # None)
          => task[t1].got = task[t2].got

====
